---- MODULE Spec2Model ----
(***************************************************************************)
(* Model of the VPS bot (src/index.js): the VpsManager registry and        *)
(* lifecycle controller, the slash-command handlers (deploy, manage) and   *)
(* the direct-message handler, with every await as a suspension point and  *)
(* the reboot timer as a deferred callback.                                *)
(*                                                                         *)
(* Text the program builds (ids, the tmate session, replies) is a TLA+     *)
(* string built with \o; the text of an incoming message is a sequence of  *)
(* one-character strings, because the handler parses it.                   *)
(***************************************************************************)
EXTENDS Integers, Sequences, FiniteSets, TLC

\* ------------------------------------------------------------------------
\* Bounds of the model
\* ------------------------------------------------------------------------
\* Number of events (interactions and messages) the client receives.
MaxEvents == 3

\* ------------------------------------------------------------------------
\* Configuration and inputs
\* ------------------------------------------------------------------------
ADMIN_ID == "admin"

\* Discord users that appear as actors and deploy targets.  They share a
\* username (their tags differ), so only the id tells their sessions apart.
Users ==
    { [id |-> "admin", username |-> "bob", bot |-> FALSE],
      [id |-> "u1",    username |-> "bob", bot |-> FALSE] }

\* A bot account that sends the client messages.
Bots == { [id |-> "b1", username |-> "helper", bot |-> TRUE] }

UserIds == { u.id : u \in Users \cup Bots }

\* The values of the ram/disk/cpu options of /deploy.
SpecsSet ==
    { [ram |-> 512,  disk |-> 10, cpu |-> 1],
      [ram |-> 1024, disk |-> 20, cpu |-> 2] }

NoSpecs == [ram |-> 0, disk |-> 0, cpu |-> 0]

\* interaction.commandName of a chat-input interaction.
CommandNames == {"deploy", "manage", "other"}

\* message.channel.type
ChannelTypes == {"DM", "GuildText"}

\* message.content, as sequences of characters.
Contents ==
    { <<"!", "h", "e", "l", "p">>,
      <<"!", "s", "t", "a", "t", "u", "s">>,
      <<"!", "r", "e", "b", "o", "o", "t">>,
      <<"!", "s", "h", "u", "t", "d", "o", "w", "n">>,
      <<"!", "s", "t", "a", "r", "t">>,
      <<"!", "s", "s", "h">>,
      <<"!", "f", "o", "o">>,
      <<" ", "!", "S", "t", "a", "r", "t", " ", " ", "n", "o", "w", " ">>,
      <<"s", "t", "a", "t", "u", "s">>,
      <<"h", "i", " ", "!", "s", "s", "h">>,
      << >> }

\* ------------------------------------------------------------------------
\* String helpers of the message handler
\* ------------------------------------------------------------------------
RECURSIVE TrimStart(_)
TrimStart(s) ==
    IF s # << >> /\ Head(s) = " " THEN TrimStart(Tail(s)) ELSE s

RECURSIVE TrimEnd(_)
TrimEnd(s) ==
    IF s # << >> /\ s[Len(s)] = " " THEN TrimEnd(SubSeq(s, 1, Len(s) - 1)) ELSE s

\* String.prototype.trim
Trim(s) == TrimEnd(TrimStart(s))

\* The first element of s.split(/ +/): the characters before the first space.
RECURSIVE FirstField(_)
FirstField(s) ==
    IF s = << >> \/ Head(s) = " " THEN << >>
    ELSE <<Head(s)>> \o FirstField(Tail(s))

\* s.split(/ +/): the fields between runs of spaces.  A leading or trailing
\* run of spaces yields an empty first or last field, as in JavaScript.
RECURSIVE Split(_)
Split(s) ==
    LET f    == FirstField(s)
        rest == SubSeq(s, Len(f) + 1, Len(s))
    IN  IF rest = << >> THEN <<f>>
        ELSE <<f>> \o Split(TrimStart(rest))

LowerOf(c) ==
    CASE c = "S" -> "s"
      [] c = "T" -> "t"
      [] c = "A" -> "a"
      [] c = "R" -> "r"
      [] OTHER   -> c

\* String.prototype.toLowerCase
ToLowerCase(s) == [i \in 1..Len(s) |-> LowerOf(s[i])]

\* String.prototype.startsWith for a one-character prefix
StartsWith(s, c) == s # << >> /\ Head(s) = c

\* args.shift().toLowerCase() of the message handler
CommandNameOf(content) == ToLowerCase(Head(Split(Trim(content))))

\* String.prototype.toUpperCase on the status values
ToUpperCase(status) ==
    CASE status = "offline"   -> "OFFLINE"
      [] status = "online"    -> "ONLINE"
      [] status = "rebooting" -> "REBOOTING"

\* ------------------------------------------------------------------------
\* State
\* ------------------------------------------------------------------------
VARIABLES
    vpsDatabase,   \* the Map: user id -> reference to a VPS object (Undefined: no entry)
    heap,          \* the VPS objects createLxc has allocated; a reference is an index
    vpsIdCounter,  \* the next id number
    timers,        \* pending setTimeout callbacks, each holding its `vps` reference
    handlers       \* the event handlers, in the order the events were received

vars == <<vpsDatabase, heap, vpsIdCounter, timers, handlers>>

\* What Map.get returns for a missing key.
Undefined == 0

\* The id number of the first container.
InitialIdCounter == 1000

NoUser == [id |-> "", username |-> "", bot |-> FALSE]

\* A handler's position is the source line of the call it awaits.
Done     == "done"        \* the handler's promise resolved
Rejected == "rejected"    \* the handler's promise rejected, with nothing catching it

\* A handler that has ended keeps nothing but how it ended, and the line of
\* the return or of the last call it awaited.
Ended(pc, ret) ==
    [kind |-> "ended", pc |-> pc, ret |-> ret, actor |-> NoUser, user |-> NoUser,
     cmd |-> << >>, specs |-> NoSpecs, vps |-> Undefined, content |-> "",
     dmSent |-> FALSE]

\* ------------------------------------------------------------------------
\* VpsManager
\* ------------------------------------------------------------------------
\* VpsManager.getUserVps
getUserVps(db, userId) ==
    IF userId \in DOMAIN db THEN db[userId] ELSE Undefined

\* Map.set
MapSet(db, key, value) == [db EXCEPT ![key] = value]

\* `LXC-${this.vpsIdCounter++}`
VpsIdOf(counter) == "LXC-" \o ToString(counter)

\* `ssh ${user.username}-${vpsId}@tmate.kexson.host`
TmateSessionOf(user, vpsId) ==
    "ssh " \o user.username \o "-" \o vpsId \o "@tmate.kexson.host"

\* createLxc without its check for an existing VPS.
createLxc_NoCheck(db, hp, counter, user, specs) ==
    LET vpsId  == VpsIdOf(counter)
        newVps == [id |-> vpsId, owner |-> user, specs |-> specs,
                   status |-> "offline",
                   tmateSession |-> TmateSessionOf(user, vpsId)]
        ref    == Len(hp) + 1
    IN  [success |-> TRUE, message |-> "",
         vps |-> ref,
         db |-> MapSet(db, user.id, ref),
         heap |-> Append(hp, newVps),
         counter |-> counter + 1]

\* createLxc that reads the counter without incrementing it.
createLxc_NoIncrement(db, hp, counter, user, specs) ==
    IF getUserVps(db, user.id) # Undefined
    THEN [success |-> FALSE, message |-> "User already has a VPS.",
          vps |-> Undefined, db |-> db, heap |-> hp, counter |-> counter]
    ELSE LET vpsId  == VpsIdOf(counter)
             newVps == [id |-> vpsId, owner |-> user, specs |-> specs,
                        status |-> "offline",
                        tmateSession |-> TmateSessionOf(user, vpsId)]
             ref    == Len(hp) + 1
         IN  [success |-> TRUE, message |-> "",
              vps |-> ref,
              db |-> MapSet(db, user.id, ref),
              heap |-> Append(hp, newVps),
              counter |-> counter]

\* createLxc that creates the VPS with status 'online'.
createLxc_Online(db, hp, counter, user, specs) ==
    IF getUserVps(db, user.id) # Undefined
    THEN [success |-> FALSE, message |-> "User already has a VPS.",
          vps |-> Undefined, db |-> db, heap |-> hp, counter |-> counter]
    ELSE LET vpsId  == VpsIdOf(counter)
             newVps == [id |-> vpsId, owner |-> user, specs |-> specs,
                        status |-> "online",
                        tmateSession |-> TmateSessionOf(user, vpsId)]
             ref    == Len(hp) + 1
         IN  [success |-> TRUE, message |-> "",
              vps |-> ref,
              db |-> MapSet(db, user.id, ref),
              heap |-> Append(hp, newVps),
              counter |-> counter + 1]

\* createLxc that takes the next id before it checks for an existing VPS.
createLxc_IdBeforeCheck(db, hp, counter, user, specs) ==
    IF getUserVps(db, user.id) # Undefined
    THEN [success |-> FALSE, message |-> "User already has a VPS.",
          vps |-> Undefined, db |-> db, heap |-> hp, counter |-> counter + 1]
    ELSE LET vpsId  == VpsIdOf(counter)
             newVps == [id |-> vpsId, owner |-> user, specs |-> specs,
                        status |-> "offline",
                        tmateSession |-> TmateSessionOf(user, vpsId)]
             ref    == Len(hp) + 1
         IN  [success |-> TRUE, message |-> "",
              vps |-> ref,
              db |-> MapSet(db, user.id, ref),
              heap |-> Append(hp, newVps),
              counter |-> counter + 1]

\* VpsManager.createLxc: the result, and the registry after the call.
createLxc(db, hp, counter, user, specs) ==
    IF getUserVps(db, user.id) # Undefined
    THEN [success |-> FALSE, message |-> "User already has a VPS.",
          vps |-> Undefined, db |-> db, heap |-> hp, counter |-> counter]
    ELSE LET vpsId  == VpsIdOf(counter)
             newVps == [id |-> vpsId, owner |-> user, specs |-> specs,
                        status |-> "offline",
                        tmateSession |-> TmateSessionOf(user, vpsId)]
             ref    == Len(hp) + 1
         IN  [success |-> TRUE, message |-> "",
              vps |-> ref,
              db |-> MapSet(db, user.id, ref),
              heap |-> Append(hp, newVps),
              counter |-> counter + 1]

\* performAction whose reboot never sets the timer.
performAction_NoTimer(db, hp, tm, userId, action) ==
    LET vps == getUserVps(db, userId)
    IN  IF vps = Undefined
        THEN [success |-> FALSE, message |-> "VPS not found.",
              vps |-> Undefined, heap |-> hp, timers |-> tm]
        ELSE [success |-> TRUE, message |-> "", vps |-> vps,
              heap |-> [hp EXCEPT ![vps].status =
                           CASE action = "start"    -> "online"
                             [] action = "shutdown" -> "offline"
                             [] action = "reboot"   -> "rebooting"
                             [] OTHER               -> @],
              timers |-> tm]

\* performAction without its check for a missing VPS: the switch runs anyway.
performAction_NoGuard(db, hp, tm, userId, action) ==
    LET vps == getUserVps(db, userId)
    IN  [success |-> TRUE, message |-> "", vps |-> vps,
         heap |-> IF vps = Undefined THEN hp
                  ELSE [hp EXCEPT ![vps].status =
                           CASE action = "start"    -> "online"
                             [] action = "shutdown" -> "offline"
                             [] action = "reboot"   -> "rebooting"
                             [] OTHER               -> @],
         timers |-> IF action = "reboot" THEN Append(tm, vps) ELSE tm]

\* performAction that starts a VPS only when it is offline.
performAction_StartFromOffline(db, hp, tm, userId, action) ==
    LET vps == getUserVps(db, userId)
    IN  IF vps = Undefined
        THEN [success |-> FALSE, message |-> "VPS not found.",
              vps |-> Undefined, heap |-> hp, timers |-> tm]
        ELSE IF action = "start" /\ hp[vps].status # "offline"
        THEN [success |-> FALSE, message |-> "VPS is not offline.",
              vps |-> vps, heap |-> hp, timers |-> tm]
        ELSE [success |-> TRUE, message |-> "", vps |-> vps,
              heap |-> [hp EXCEPT ![vps].status =
                           CASE action = "start"    -> "online"
                             [] action = "shutdown" -> "offline"
                             [] action = "reboot"   -> "rebooting"
                             [] OTHER               -> @],
              timers |-> IF action = "reboot" THEN Append(tm, vps) ELSE tm]

\* performAction whose start and shutdown clear the pending reboot timers of
\* the VPS.
performAction_CancelTimer(db, hp, tm, userId, action) ==
    LET vps == getUserVps(db, userId)
    IN  IF vps = Undefined
        THEN [success |-> FALSE, message |-> "VPS not found.",
              vps |-> Undefined, heap |-> hp, timers |-> tm]
        ELSE [success |-> TRUE, message |-> "", vps |-> vps,
              heap |-> [hp EXCEPT ![vps].status =
                           CASE action = "start"    -> "online"
                             [] action = "shutdown" -> "offline"
                             [] action = "reboot"   -> "rebooting"
                             [] OTHER               -> @],
              timers |-> IF action = "reboot" THEN Append(tm, vps)
                         ELSE SelectSeq(tm, LAMBDA t : t # vps)]

\* performAction whose reboot clears the pending timers of the VPS before it
\* sets the new one.
performAction_Debounce(db, hp, tm, userId, action) ==
    LET vps == getUserVps(db, userId)
    IN  IF vps = Undefined
        THEN [success |-> FALSE, message |-> "VPS not found.",
              vps |-> Undefined, heap |-> hp, timers |-> tm]
        ELSE [success |-> TRUE, message |-> "", vps |-> vps,
              heap |-> [hp EXCEPT ![vps].status =
                           CASE action = "start"    -> "online"
                             [] action = "shutdown" -> "offline"
                             [] action = "reboot"   -> "rebooting"
                             [] OTHER               -> @],
              timers |-> IF action = "reboot"
                         THEN Append(SelectSeq(tm, LAMBDA t : t # vps), vps)
                         ELSE tm]

\* VpsManager.performAction: the result, and the objects and timers after it.
performAction(db, hp, tm, userId, action) ==
    LET vps == getUserVps(db, userId)
    IN  IF vps = Undefined
        THEN [success |-> FALSE, message |-> "VPS not found.",
              vps |-> Undefined, heap |-> hp, timers |-> tm]
        ELSE CASE action = "start" ->
                    [success |-> TRUE, message |-> "", vps |-> vps,
                     heap |-> [hp EXCEPT ![vps].status = "online"],
                     timers |-> tm]
               [] action = "shutdown" ->
                    [success |-> TRUE, message |-> "", vps |-> vps,
                     heap |-> [hp EXCEPT ![vps].status = "offline"],
                     timers |-> tm]
               [] action = "reboot" ->
                    [success |-> TRUE, message |-> "", vps |-> vps,
                     heap |-> [hp EXCEPT ![vps].status = "rebooting"],
                     timers |-> Append(tm, vps)]
               [] OTHER ->
                    [success |-> TRUE, message |-> "", vps |-> vps,
                     heap |-> hp, timers |-> tm]

\* The callback of setTimeout in performAction: vps.status = 'online'.
TimerCallback(hp, vps) == [hp EXCEPT ![vps].status = "online"]

\* ------------------------------------------------------------------------
\* Initial state: new VpsManager(), no event received yet
\* ------------------------------------------------------------------------
Init ==
    /\ vpsDatabase = [id \in UserIds |-> Undefined]
    /\ heap = << >>
    /\ vpsIdCounter = InitialIdCounter
    /\ timers = << >>
    /\ handlers = << >>

\* ------------------------------------------------------------------------
\* Handlers
\* ------------------------------------------------------------------------
\* A running handler: where it is suspended and the locals it still needs.
Handler(kind, pc, actor, user, cmd, specs, vps, content, dmSent) ==
    [kind |-> kind, pc |-> pc, ret |-> "", actor |-> actor, user |-> user, cmd |-> cmd,
     specs |-> specs, vps |-> vps, content |-> content, dmSent |-> dmSent]

\* The handler moves to the next call it awaits, with that call's text.  The
\* options of the interaction are not read again after createLxc.
Goto(h, pc, content) == [h EXCEPT !.pc = pc, !.content = content, !.specs = NoSpecs]

Pending(k) == k \in 1..Len(handlers) /\ handlers[k].kind # "ended"

\* Texts of the replies (emoji and markdown left out).
DenyText     == "You are not an admin."
ErrorText    == "There was an error while executing this command!"
NoVpsText    == "You do not have a VPS deployed. Please contact an administrator."
CheckDmText  == "Please check your Direct Messages for VPS management instructions."
HelpText     == "Available Commands: !status !reboot !shutdown !start !ssh"
UnknownText  == "Unknown command. Type !help to see available commands."

CreateErrorText(message) == "Error: " \o message

DmEmbedText(vps) ==
    "Your LXC VPS is Ready! ID: " \o vps.id
        \o " RAM: " \o ToString(vps.specs.ram) \o "MB"
        \o " Disk: " \o ToString(vps.specs.disk) \o "GB"
        \o " CPU: " \o ToString(vps.specs.cpu) \o " Cores "
        \o vps.tmateSession

DeployedText(vps, user) ==
    "Successfully deployed LXC VPS " \o vps.id \o " for " \o user.id
        \o ". They have been notified via DM."

DegradedText(vps, user) ==
    "VPS " \o vps.id \o " deployed for " \o user.id
        \o ", but I could not send them a DM."

ManageDmText(vps)   == "Hello! You can manage your VPS (" \o vps.id \o ") by sending me commands in this DM."
StatusText(vps)     == "Your VPS (" \o vps.id \o ") status is: " \o ToUpperCase(vps.status)
RebootText(vps)     == "Your VPS (" \o vps.id \o ") is now rebooting."
ShutdownText(vps)   == "Your VPS (" \o vps.id \o ") has been shut down."
StartText(vps)      == "Your VPS (" \o vps.id \o ") has been started."
SshText(vps)        == "SSH Access for " \o vps.id \o ": " \o vps.tmateSession

\* The category of a command of the `commands` table.
CategoryOf(commandName) == IF commandName = "deploy" THEN "admin" ELSE "user"

\* The admin check, written with === in place of !==.
AdminCheckFails_Inverted(commandName, actor) ==
    CategoryOf(commandName) = "admin" /\ actor.id = ADMIN_ID

\* The admin-only check of the interaction handler.
AdminCheckFails(commandName, actor) ==
    CategoryOf(commandName) = "admin" /\ actor.id # ADMIN_ID

\* client.on('interactionCreate'): the admin check, then the command's execute
\* up to its first await.
InteractionCreate(actor, commandName, user, specs) ==
    /\ Len(handlers) < MaxEvents
    /\ UNCHANGED <<vpsDatabase, heap, vpsIdCounter, timers>>
    /\ handlers' = Append(handlers,
          CASE commandName \in {"deploy", "manage"}
                  /\ AdminCheckFails(commandName, actor) ->
                 Handler(commandName, "L199", actor, NoUser, << >>, NoSpecs,
                         Undefined, DenyText, FALSE)
            [] commandName = "deploy" ->
                 Handler("deploy", "L112", actor, user, << >>, specs,
                         Undefined, "", FALSE)
            [] commandName = "manage" ->
                 LET vps == getUserVps(vpsDatabase, actor.id)
                 IN  IF vps = Undefined
                     THEN Handler("manage", "L154", actor, NoUser, << >>,
                                  NoSpecs, Undefined, NoVpsText, FALSE)
                     ELSE Handler("manage", "L156", actor, NoUser, << >>,
                                  NoSpecs, vps, CheckDmText, FALSE)
            [] OTHER -> Ended(Done, "L195"))

\* deploy.execute after `await interaction.deferReply()`: createLxc, then the
\* error reply or the DM to the user.  A failed deferReply throws into the
\* catch of the interaction handler.
DeferReplySettled(k, ok) ==
    /\ Pending(k)
    /\ handlers[k].pc = "L112"
    /\ UNCHANGED timers
    /\ LET h      == handlers[k]
           result == createLxc(vpsDatabase, heap, vpsIdCounter, h.user, h.specs)
       IN  IF ~ok
           THEN /\ handlers' = [handlers EXCEPT ![k] = Goto(h, "L206", ErrorText)]
                /\ UNCHANGED <<vpsDatabase, heap, vpsIdCounter>>
           ELSE /\ vpsDatabase' = result.db
                /\ heap' = result.heap
                /\ vpsIdCounter' = result.counter
                /\ handlers' = [handlers EXCEPT ![k] =
                      IF ~result.success
                      THEN Goto(h, "L116", CreateErrorText(result.message))
                      ELSE [Goto(h, "L135", DmEmbedText(result.heap[result.vps]))
                               EXCEPT !.vps = result.vps]]

\* user.send whose failure in deploy removes the VPS that was created.
SendSettled_Rollback(k, ok) ==
    /\ Pending(k)
    /\ handlers[k].pc \in {"L135", "L158", "L225"}
    /\ UNCHANGED <<heap, vpsIdCounter, timers>>
    /\ LET h == handlers[k]
       IN  /\ vpsDatabase' = IF h.pc = "L135" /\ ~ok
                             THEN MapSet(vpsDatabase, h.user.id, Undefined)
                             ELSE vpsDatabase
           /\ handlers' = [handlers EXCEPT ![k] =
                 IF h.pc = "L135"
                 THEN IF ok
                      THEN [Goto(h, "L137", DeployedText(heap[h.vps], h.user))
                               EXCEPT !.dmSent = TRUE]
                      ELSE Goto(h, "L140", DegradedText(heap[h.vps], h.user))
                 ELSE Ended(Done, h.pc)]

\* `await user.send(...)` settles: in deploy (line 135), in manage (line 158)
\* and in the reply helper of the message handler (line 225).
SendSettled(k, ok) ==
    /\ Pending(k)
    /\ handlers[k].pc \in {"L135", "L158", "L225"}
    /\ UNCHANGED <<vpsDatabase, heap, vpsIdCounter, timers>>
    /\ LET h == handlers[k]
       IN  handlers' = [handlers EXCEPT ![k] =
              IF h.pc = "L135"
              THEN IF ok
                   THEN [Goto(h, "L137", DeployedText(heap[h.vps], h.user))
                            EXCEPT !.dmSent = TRUE]
                   ELSE Goto(h, "L140", DegradedText(heap[h.vps], h.user))
              ELSE Ended(Done, h.pc)]

\* `interaction.editReply(...)` settles (lines 116, 137, 140).
EditReplySettled(k, ok) ==
    /\ Pending(k)
    /\ handlers[k].pc \in {"L116", "L137", "L140"}
    /\ UNCHANGED <<vpsDatabase, heap, vpsIdCounter, timers>>
    /\ LET h == handlers[k]
       IN  handlers' = [handlers EXCEPT ![k] =
              CASE ok -> Ended(Done, h.pc)
                [] ~ok /\ h.pc = "L137" ->
                     Goto(h, "L140", DegradedText(heap[h.vps], h.user))
                [] OTHER -> Goto(h, "L206", ErrorText)]

\* `interaction.reply(...)` settles (lines 154, 156, 199, 206).
ReplySettled(k, ok) ==
    /\ Pending(k)
    /\ handlers[k].pc \in {"L154", "L156", "L199", "L206"}
    /\ UNCHANGED <<vpsDatabase, heap, vpsIdCounter, timers>>
    /\ LET h == handlers[k]
       IN  handlers' = [handlers EXCEPT ![k] =
              CASE h.pc \in {"L199", "L206"} ->
                     IF ok THEN Ended(Done, h.pc) ELSE Ended(Rejected, h.pc)
                [] h.pc = "L154" ->
                     IF ok THEN Ended(Done, h.pc) ELSE Goto(h, "L206", ErrorText)
                [] h.pc = "L156" ->
                     IF ok THEN Goto(h, "L158", ManageDmText(heap[h.vps]))
                     ELSE Goto(h, "L206", ErrorText)]

\* The commands of the switch of the message handler.
CmdHelp     == <<"!", "h", "e", "l", "p">>
CmdStatus   == <<"!", "s", "t", "a", "t", "u", "s">>
CmdReboot   == <<"!", "r", "e", "b", "o", "o", "t">>
CmdShutdown == <<"!", "s", "h", "u", "t", "d", "o", "w", "n">>
CmdStart    == <<"!", "s", "t", "a", "r", "t">>
CmdSsh      == <<"!", "s", "s", "h">>

\* The switch whose case '!status' has no break and falls into '!reboot'.
SwitchAction_Fallthrough(commandName) ==
    CASE commandName = CmdStatus   -> "reboot"
      [] commandName = CmdReboot   -> "reboot"
      [] commandName = CmdShutdown -> "shutdown"
      [] commandName = CmdStart    -> "start"
      [] OTHER                     -> "none"

\* The action a case of the switch passes to performAction ("none": no call).
SwitchAction(commandName) ==
    CASE commandName = CmdReboot   -> "reboot"
      [] commandName = CmdShutdown -> "shutdown"
      [] commandName = CmdStart    -> "start"
      [] OTHER                     -> "none"

\* The switch whose default case shows the help.
SwitchText_DefaultHelp(commandName, vps) ==
    CASE commandName = CmdStatus   -> StatusText(vps)
      [] commandName = CmdReboot   -> RebootText(vps)
      [] commandName = CmdShutdown -> ShutdownText(vps)
      [] commandName = CmdStart    -> StartText(vps)
      [] commandName = CmdSsh      -> SshText(vps)
      [] OTHER                     -> HelpText

\* The text a case of the switch replies with; vps is the object after the
\* call of performAction.
SwitchText(commandName, vps) ==
    CASE commandName = CmdHelp     -> HelpText
      [] commandName = CmdStatus   -> StatusText(vps)
      [] commandName = CmdReboot   -> RebootText(vps)
      [] commandName = CmdShutdown -> ShutdownText(vps)
      [] commandName = CmdStart    -> StartText(vps)
      [] commandName = CmdSsh      -> SshText(vps)
      [] OTHER                     -> UnknownText

\* client.on('messageCreate'): the guards, the parsing of the command, the
\* switch with its call of performAction, up to the await in `reply`.
MessageCreate(author, channelType, content) ==
    /\ Len(handlers) < MaxEvents
    /\ UNCHANGED <<vpsDatabase, vpsIdCounter>>
    /\ LET vps         == getUserVps(vpsDatabase, author.id)
           commandName == CommandNameOf(content)
           action      == SwitchAction(commandName)
       IN  IF \/ author.bot
              \/ channelType # "DM"
              \/ vps = Undefined
              \/ ~StartsWith(commandName, "!")
           THEN /\ handlers' = Append(handlers,
                       Ended(Done, CASE author.bot \/ channelType # "DM" -> "L214"
                                     [] vps = Undefined -> "L216"
                                     [] OTHER -> "L220"))
                /\ UNCHANGED <<heap, timers>>
           ELSE LET result == IF action = "none"
                              THEN [heap |-> heap, timers |-> timers]
                              ELSE performAction(vpsDatabase, heap, timers, author.id, action)
                IN  /\ heap' = result.heap
                    /\ timers' = result.timers
                    /\ handlers' = Append(handlers,
                          Handler("message", "L225", author, NoUser, commandName,
                                  NoSpecs, vps,
                                  SwitchText(commandName, result.heap[vps]), FALSE))

\* The setTimeout callback of a reboot runs.  Timers of equal delay run in
\* the order they were set.
TimerFire ==
    /\ timers # << >>
    /\ heap' = TimerCallback(heap, Head(timers))
    /\ timers' = Tail(timers)
    /\ UNCHANGED <<vpsDatabase, vpsIdCounter, handlers>>

Next ==
    \/ \E actor \in Users, commandName \in CommandNames, user \in Users, specs \in SpecsSet :
          InteractionCreate(actor, commandName, user, specs)
    \/ \E author \in Users \cup Bots, channelType \in ChannelTypes, content \in Contents :
          MessageCreate(author, channelType, content)
    \/ \E k \in 1..MaxEvents, ok \in BOOLEAN : DeferReplySettled(k, ok)
    \/ \E k \in 1..MaxEvents, ok \in BOOLEAN : SendSettled(k, ok)
    \/ \E k \in 1..MaxEvents, ok \in BOOLEAN : EditReplySettled(k, ok)
    \/ \E k \in 1..MaxEvents, ok \in BOOLEAN : ReplySettled(k, ok)
    \/ TimerFire

Spec == Init /\ [][Next]_vars

\* The event loop runs a timer callback once its delay has passed.
FairSpec ==
    /\ Spec
    /\ WF_vars(TimerFire)

\* ------------------------------------------------------------------------
\* Properties
\* ------------------------------------------------------------------------
\* References to the VPS objects allocated so far.
Refs == 1..Len(heap)

Status(ref) == heap[ref].status

AllUsers == Users \cup Bots

\* The registry of the VpsManager, as one value.
registry == <<vpsDatabase, heap, vpsIdCounter, timers>>

\* The handler of the event received in this step.
Received == handlers'[Len(handlers')]

EventReceived == Len(handlers') = Len(handlers) + 1

\* Handler k returns from its call of createLxc in this step.
CreateLxcCalled(k) ==
    /\ k \in 1..Len(handlers)
    /\ handlers[k].pc = "L112"
    /\ handlers'[k].pc \in {"L116", "L135"}

LifecycleActions == {"start", "shutdown", "reboot"}

\* C1 (state part): no two VPS objects have the same owner, and the entry of
\* an owner in the registry is an object of that owner.
C1_OneRecordPerOwner ==
    /\ \A a, b \in Refs : heap[a].owner.id = heap[b].owner.id => a = b
    /\ \A id \in UserIds :
          vpsDatabase[id] # Undefined =>
             /\ vpsDatabase[id] \in Refs
             /\ heap[vpsDatabase[id]].owner.id = id

\* C1 (step part): createLxc for an owner who has a record fails with
\* "User already has a VPS." and leaves the registry as it was.
C1_CreateFailsOnExisting ==
    \A k \in 1..MaxEvents :
       (CreateLxcCalled(k) /\ vpsDatabase[handlers[k].user.id] # Undefined) =>
          /\ handlers'[k].pc = "L116"
          /\ handlers'[k].content = CreateErrorText("User already has a VPS.")
          /\ UNCHANGED <<vpsDatabase, heap, vpsIdCounter>>

\* C1: in every reachable state each owner has at most one VPS record, and
\* createLxc for an owner who already has a record returns failure and does
\* not overwrite the stored record.
C1_AtMostOneRecord ==
    /\ []C1_OneRecordPerOwner
    /\ [][C1_CreateFailsOnExisting]_vars

\* A deploy for a user who has a record got the failure of createLxc.
C1_Witness ==
    \E k \in 1..Len(handlers) :
       /\ handlers[k].pc = "L116"
       /\ vpsDatabase[handlers[k].user.id] # Undefined

\* C2 (step part): the step that handles !reboot leaves the status 'rebooting'
\* and the reply says so.
C2_RebootSetsRebooting ==
    (/\ EventReceived
     /\ Received.kind = "message"
     /\ Received.cmd = CmdReboot) =>
        /\ heap'[Received.vps].status = "rebooting"
        /\ Received.content = RebootText(heap'[Received.vps])

\* C2 (step part): an online record stays online in every step that receives
\* no event.
C2_StaysOnline ==
    \A ref \in Refs :
       (Status(ref) = "online" /\ ~EventReceived) => heap'[ref].status = "online"

\* C2: right after reboot the status is 'rebooting'; the deferred transition
\* then makes it 'online', and it stays 'online' while no further command
\* is received.
C2_RebootThenOnline ==
    /\ [][C2_RebootSetsRebooting]_vars
    /\ \A ref \in 1..MaxEvents :
          (ref \in Refs /\ Status(ref) = "rebooting")
             ~> (ref \in Refs /\ Status(ref) = "online")
    /\ [][C2_StaysOnline]_vars

\* A reboot was handled and its timer has run: the record is online again.
C2_Witness ==
    \E k \in 1..Len(handlers) :
       /\ handlers[k].kind = "message"
       /\ handlers[k].cmd = CmdReboot
       /\ Status(handlers[k].vps) = "online"
       /\ timers = << >>

\* C3 (state part): performAction for an owner with no record fails with
\* "VPS not found." and changes neither the objects nor the timers.
C3_PerformActionNotFound ==
    \A id \in UserIds, action \in LifecycleActions :
       vpsDatabase[id] = Undefined =>
          LET result == performAction(vpsDatabase, heap, timers, id, action)
          IN  /\ ~result.success
              /\ result.message = "VPS not found."
              /\ result.heap = heap
              /\ result.timers = timers

\* C3 (step part): a message of an author with no record ends the handler at
\* its guards and changes nothing in the registry.
C3_MessageWithoutRecord ==
    EventReceived =>
       \A author \in AllUsers :
          vpsDatabase[author.id] = Undefined =>
             \A channelType \in ChannelTypes, content \in Contents :
                MessageCreate(author, channelType, content) =>
                   /\ UNCHANGED registry
                   /\ Received.kind = "ended"
                   /\ Received.ret \in {"L214", "L216"}

\* C3: a lifecycle command for an owner with no record fails with NotFound
\* and changes nothing; on the direct-message channel it causes no mutation.
C3_NotFoundNoMutation ==
    /\ []C3_PerformActionNotFound
    /\ [][C3_MessageWithoutRecord]_vars

\* A direct message of a user with no record was dropped at line 216 while
\* another user has a record.
C3_Witness ==
    /\ \E id \in UserIds : vpsDatabase[id] = Undefined
    /\ \E id \in UserIds : vpsDatabase[id] # Undefined
    /\ \E k \in 1..Len(handlers) : handlers[k].ret = "L216"

\* C4 (step part): a deploy of an actor other than the administrator is
\* answered with the denial and leaves the registry unchanged.
C4_NonAdminDenied ==
    EventReceived =>
       \A actor \in AllUsers :
          actor.id # ADMIN_ID =>
             \A user \in Users, specs \in SpecsSet :
                InteractionCreate(actor, "deploy", user, specs) =>
                   /\ UNCHANGED registry
                   /\ Received.pc = "L199"
                   /\ Received.content = DenyText

\* C4 (step part): a denied handler only ends, and a VPS object is allocated
\* or entered in the registry only by the createLxc call of a deploy handler
\* whose actor is the administrator.
C4_OnlyAdminCreates ==
    /\ \A k \in 1..Len(handlers) :
          handlers[k].pc = "L199" =>
             /\ handlers'[k].pc \in {"L199", Done, Rejected}
             /\ (handlers'[k] # handlers[k] => UNCHANGED registry)
    /\ (heap' # heap \/ vpsDatabase' # vpsDatabase \/ vpsIdCounter' # vpsIdCounter) =>
          \/ \E k \in 1..Len(handlers) :
                /\ CreateLxcCalled(k)
                /\ handlers[k].kind = "deploy"
                /\ handlers[k].actor.id = ADMIN_ID
                /\ heap' = Append(heap, heap'[Len(heap')])
          \/ /\ Len(heap') = Len(heap)
             /\ UNCHANGED <<vpsDatabase, vpsIdCounter>>

\* C4: a deploy by anyone but the administrator is denied and never reaches
\* createLxc; a record is only ever created by a deploy of the administrator.
C4_DeployAdminOnly ==
    /\ [][C4_NonAdminDenied]_vars
    /\ [][C4_OnlyAdminCreates]_vars

\* A deploy of a non-admin was denied and has ended, and a deploy of the
\* administrator created a record.
C4_Witness ==
    /\ \E k \in 1..Len(handlers) : handlers[k].ret = "L199"
    /\ Len(heap) = 1

\* The status of the record of user id after the actions of the sequence
\* are applied by performAction in turn to objects hp; "failed" when one of
\* the calls fails.
RECURSIVE StatusAfter(_, _, _, _)
StatusAfter(hp, tm, id, actions) ==
    IF actions = << >> THEN hp[vpsDatabase[id]].status
    ELSE LET result == performAction(vpsDatabase, hp, tm, id, Head(actions))
         IN  IF ~result.success THEN "failed"
             ELSE StatusAfter(result.heap, result.timers, id, Tail(actions))

\* C5 (state part): on the record of every owner, whatever its status,
\* start gives online and shutdown gives offline, once or twice, and
\* start; shutdown; start gives online.
C5_TotalTransitions ==
    \A id \in UserIds :
       vpsDatabase[id] # Undefined =>
          /\ StatusAfter(heap, timers, id, <<"start">>) = "online"
          /\ StatusAfter(heap, timers, id, <<"shutdown">>) = "offline"
          /\ StatusAfter(heap, timers, id, <<"start", "start">>) = "online"
          /\ StatusAfter(heap, timers, id, <<"shutdown", "shutdown">>) = "offline"
          /\ StatusAfter(heap, timers, id, <<"start", "shutdown", "start">>) = "online"

\* C5 (step part): the step that handles !start or !shutdown leaves the
\* status online or offline.
C5_CommandSetsStatus ==
    (EventReceived /\ Received.kind = "message") =>
       /\ Received.cmd = CmdStart => heap'[Received.vps].status = "online"
       /\ Received.cmd = CmdShutdown => heap'[Received.vps].status = "offline"

\* C5: start and shutdown are accepted from every status and never fail;
\* start leaves 'online', shutdown leaves 'offline', both are idempotent,
\* and start; shutdown; start ends in 'online'.
C5_StartShutdownTotal ==
    /\ []C5_TotalTransitions
    /\ [][C5_CommandSetsStatus]_vars

\* !start was handled on a record whose reboot timer is still pending, and
\* the record is online.
C5_Witness ==
    \E k \in 1..Len(handlers) :
       /\ handlers[k].kind = "message"
       /\ handlers[k].cmd = CmdStart
       /\ Status(handlers[k].vps) = "online"
       /\ \E i \in 1..Len(timers) : timers[i] = handlers[k].vps

\* C6: the access credential of every record is the function of its owner
\* and its id that createLxc computes, and records of different owners never
\* carry the same credential.
C6_CredentialUnique ==
    /\ \A a \in Refs :
          heap[a].tmateSession = TmateSessionOf(heap[a].owner, heap[a].id)
    /\ \A a, b \in Refs :
          heap[a].owner.id # heap[b].owner.id =>
             heap[a].tmateSession # heap[b].tmateSession

\* Two owners with the same username both have a record.
C6_Witness ==
    \E a, b \in Refs :
       /\ heap[a].owner.id # heap[b].owner.id
       /\ heap[a].owner.username = heap[b].owner.username

\* C7 (step part): a send, editReply or reply that fails leaves the registry,
\* the objects and the timers as they are.
C7_FailureKeepsMutation ==
    \A k \in 1..Len(handlers) :
       (handlers'[k] # handlers[k] /\
          (\/ SendSettled(k, FALSE)
           \/ EditReplySettled(k, FALSE)
           \/ ReplySettled(k, FALSE))) => UNCHANGED registry

\* C7 (state part): while a deploy handler goes on after its createLxc call
\* succeeded, whatever failed since, the record it created is in the registry.
C7_CreatedRecordStays ==
    \A k \in 1..Len(handlers) :
       (handlers[k].kind = "deploy" /\ handlers[k].vps # Undefined) =>
          vpsDatabase[handlers[k].user.id] = handlers[k].vps

\* C7: a failed reply or notification never rolls back a mutation: the
\* record created by deploy stays when the DM fails, and a status change and
\* its timer stay when the reply to a DM command fails.
C7_DeliveryFailureNoRollback ==
    /\ [][C7_FailureKeepsMutation]_vars
    /\ []C7_CreatedRecordStays

\* The DM of a deploy failed: the handler is at the degraded reply, and the
\* record it created is in the registry.
C7_Witness ==
    \E k \in 1..Len(handlers) :
       /\ handlers[k].pc = "L140"
       /\ ~handlers[k].dmSent
       /\ vpsDatabase[handlers[k].user.id] = handlers[k].vps

\* Handler k applies its operation to the registry in this step: the
\* createLxc call of a deploy, or the performAction call of a message.
OperationApplied(k) ==
    \/ CreateLxcCalled(k)
    \/ /\ EventReceived
       /\ k = Len(handlers')
       /\ Received.kind = "message"
       /\ SwitchAction(Received.cmd) # "none"

\* The owner whose record the operation of handler k is about.
OwnerOfOperation(k) ==
    IF CreateLxcCalled(k) THEN handlers[k].user.id ELSE Received.actor.id

\* C8: operations on one owner's record are applied in the order in which
\* their commands were received: when a handler applies its operation, no
\* command for the same owner that was received earlier is still waiting to
\* apply its own.
C8_AppliedInReceiptOrder ==
    [][\A k \in 1..MaxEvents :
          OperationApplied(k) =>
             ~\E j \in 1..(k - 1) :
                 /\ handlers[j].pc = "L112"
                 /\ handlers[j].user.id = OwnerOfOperation(k)]_vars

\* The command names of the switch of the message handler.
RecognisedCommands == {CmdHelp, CmdStatus, CmdReboot, CmdShutdown, CmdStart, CmdSsh}

\* The text names a lifecycle request, with or without the leading "!".
NamesRequest(content) ==
    LET commandName == CommandNameOf(content)
    IN  \/ commandName \in RecognisedCommands
        \/ <<"!">> \o commandName \in RecognisedCommands

\* C9 as stated: every direct message of a record owner whose text is not a
\* recognised request gets the 'unknown command' reply and changes no state.
C9_EveryUnrecognisedTextReplied ==
    [][EventReceived =>
          \A author \in Users :
             vpsDatabase[author.id] # Undefined =>
                \A content \in Contents :
                   (MessageCreate(author, "DM", content) /\ ~NamesRequest(content)) =>
                      /\ Received.pc = "L225"
                      /\ Received.content = UnknownText
                      /\ UNCHANGED registry]_vars

\* C9 (amended): a direct message of a record owner whose first word starts
\* with "!" and is no command of the switch gets the 'unknown command'
\* reply; one whose first word does not start with "!" gets no reply; both
\* change no state.
C9_UnknownCommandReply ==
    [][EventReceived =>
          \A author \in Users :
             vpsDatabase[author.id] # Undefined =>
                \A content \in Contents :
                   (/\ MessageCreate(author, "DM", content)
                    /\ CommandNameOf(content) \notin RecognisedCommands) =>
                      /\ UNCHANGED registry
                      /\ IF StartsWith(CommandNameOf(content), "!")
                         THEN /\ Received.pc = "L225"
                              /\ Received.content = UnknownText
                         ELSE /\ Received.kind = "ended"
                              /\ Received.ret = "L220"]_vars

\* An owner got the 'unknown command' reply, and a message of an owner
\* without "!" was dropped at line 220.
C9_Witness ==
    /\ \E k \in 1..Len(handlers) :
          /\ handlers[k].pc = "L225"
          /\ handlers[k].content = UnknownText
          /\ handlers[k].cmd \notin RecognisedCommands
    /\ \E k \in 1..Len(handlers) : handlers[k].ret = "L220"

IsPrefix(s, t) == Len(s) <= Len(t) /\ SubSeq(t, 1, Len(s)) = s

\* C10 (step part): no step removes a pending timer except the run of the
\* first one, which sets its record online.
C10_TimersOnlyFire ==
    \/ IsPrefix(timers, timers')
    \/ /\ timers # << >>
       /\ timers' = Tail(timers)
       /\ heap'[Head(timers)].status = "online"

\* C10: a pending reboot transition is never cancelled by a later command:
\* it still fires, so a record that a shutdown set 'offline' while the
\* transition was pending becomes 'online' with no further command.
C10_DeferredNotCancelled ==
    /\ [][C10_TimersOnlyFire]_vars
    /\ \A ref \in 1..MaxEvents :
          (/\ ref \in Refs
           /\ Status(ref) = "offline"
           /\ \E i \in 1..Len(timers) : timers[i] = ref)
             ~> (ref \in Refs /\ Status(ref) = "online")

\* A shutdown was handled while a reboot timer of the record was pending:
\* the record is offline and the timer is still there.
C10_Witness ==
    \E k \in 1..Len(handlers) :
       /\ handlers[k].kind = "message"
       /\ handlers[k].cmd = CmdShutdown
       /\ Status(handlers[k].vps) = "offline"
       /\ \E i \in 1..Len(timers) : timers[i] = handlers[k].vps

\* The number of deferred transitions pending in tm for the record ref.
PendingFor(tm, ref) == Cardinality({i \in 1..Len(tm) : tm[i] = ref})

\* The direct-message command that asks for a lifecycle action.
CommandFor(action) ==
    CASE action = "start"    -> CmdStart
      [] action = "shutdown" -> CmdShutdown
      [] action = "reboot"   -> CmdReboot

\* The event received in this step is the direct message of the owner of the
\* record ref that asks for this action.
ActionIssued(ref, action) ==
    /\ EventReceived
    /\ Received.kind = "message"
    /\ Received.vps = ref
    /\ Received.cmd = CommandFor(action)

\* The first pending timer runs in this step.
TimerFired == timers # << >> /\ timers' = Tail(timers)

\* C11 (step part): a reboot adds one pending transition for its record and
\* keeps every earlier one; the run of a timer takes one away from its record
\* and sets that record online; nothing else changes the number pending.
C11_OnePerReboot ==
    \A ref \in Refs :
       /\ ActionIssued(ref, "reboot") =>
             /\ timers' = Append(timers, ref)
             /\ PendingFor(timers', ref) = PendingFor(timers, ref) + 1
       /\ (TimerFired /\ Head(timers) = ref) =>
             /\ PendingFor(timers', ref) = PendingFor(timers, ref) - 1
             /\ heap'[ref].status = "online"
       /\ (~ActionIssued(ref, "reboot") /\ ~(TimerFired /\ Head(timers) = ref)) =>
             PendingFor(timers', ref) = PendingFor(timers, ref)

\* C11: every reboot schedules its own deferred transition, none replaces or
\* debounces an earlier one, so the number pending for a record is the number
\* of reboots less the number fired; each firing sets 'online', and the
\* record is 'online' when the last pending one has fired.
C11_EachRebootSchedules ==
    /\ [][C11_OnePerReboot]_vars
    /\ \A ref \in 1..MaxEvents :
          (ref \in Refs /\ PendingFor(timers, ref) > 0)
             ~> (/\ ref \in Refs
                 /\ PendingFor(timers, ref) = 0
                 /\ Status(ref) = "online")

\* Two reboots of one record were handled and one of the two timers has run.
C11_Witness ==
    \E j, k \in 1..Len(handlers) :
       /\ j < k
       /\ handlers[j].kind = "message" /\ handlers[j].cmd = CmdReboot
       /\ handlers[k].kind = "message" /\ handlers[k].cmd = CmdReboot
       /\ handlers[j].vps = handlers[k].vps
       /\ PendingFor(timers, handlers[k].vps) = 1
       /\ Status(handlers[k].vps) = "online"

\* C12 (step part): every VPS object stays allocated and keeps its id, owner,
\* specs and tmateSession, and every entry of the registry stays as it is.
C12_RecordKept ==
    /\ Len(heap') >= Len(heap)
    /\ \A ref \in Refs :
          /\ heap'[ref].id = heap[ref].id
          /\ heap'[ref].owner = heap[ref].owner
          /\ heap'[ref].specs = heap[ref].specs
          /\ heap'[ref].tmateSession = heap[ref].tmateSession
    /\ \A id \in UserIds :
          vpsDatabase[id] # Undefined => vpsDatabase'[id] = vpsDatabase[id]

\* C12: a record, once created, stays in the registry for ever, and its id,
\* owner, specs and access credential never change; only its status does.
C12_RecordImmutable == [][C12_RecordKept]_vars

\* A record went through a reboot and its timer, and a second deploy for its
\* owner was refused; it is in the registry, online.
C12_Witness ==
    /\ \E k \in 1..Len(handlers) : handlers[k].ret = "L116"
    /\ \E ref \in Refs :
          /\ Status(ref) = "online"
          /\ vpsDatabase[heap[ref].owner.id] = ref

\* Some record has another status, or another number of pending timers,
\* after this step.
StatusOrTimersChanged ==
    \/ timers' # timers
    \/ \E ref \in Refs : heap'[ref].status # heap[ref].status

\* C13 (step part): a status changes only by a start, shutdown or reboot on
\* that record or by the run of a timer of that record; timers change only
\* by a reboot or by the run of a timer.
C13_OnlyControllerChanges ==
    /\ \A ref \in Refs :
          heap'[ref].status # heap[ref].status =>
             \/ \E action \in LifecycleActions : ActionIssued(ref, action)
             \/ TimerFired /\ Head(timers) = ref
    /\ timers' # timers =>
          \/ \E ref \in Refs : ActionIssued(ref, "reboot")
          \/ TimerFired

\* C13 (step part): no other command changes a status or a timer: not
\* !status, !ssh, !help, an unknown command, /manage, a deploy that is denied
\* or fails, nor any later step of these handlers.
C13_OtherCommandsChangeNothing ==
    /\ (EventReceived /\ ~\E ref \in Refs, action \in LifecycleActions :
                             ActionIssued(ref, action)) => ~StatusOrTimersChanged
    /\ (~EventReceived /\ ~TimerFired) => ~StatusOrTimersChanged

\* C13: a record's status changes only in a start, shutdown or reboot on
\* that record or in the firing of one of its deferred transitions; every
\* other command leaves all statuses and the pending transitions unchanged.
C13_StatusFrame ==
    /\ [][C13_OnlyControllerChanges]_vars
    /\ [][C13_OtherCommandsChangeNothing]_vars

\* !status was handled on a record that is rebooting, and left it so.
C13_Witness ==
    \E k \in 1..Len(handlers) :
       /\ handlers[k].kind = "message"
       /\ handlers[k].cmd = CmdStatus
       /\ handlers[k].content = StatusText(heap[handlers[k].vps])
       /\ Status(handlers[k].vps) = "rebooting"
       /\ PendingFor(timers, handlers[k].vps) = 1

\* No direct message has reached performAction for the record ref: none that
\* is still replying, and none that has ended.
NoActionYet(ref) ==
    \A k \in 1..Len(handlers) :
       /\ handlers[k].ret # "L225"
       /\ ~(/\ handlers[k].kind = "message"
            /\ handlers[k].vps = ref
            /\ handlers[k].cmd \in {CommandFor(action) : action \in LifecycleActions})

\* C14 (state part): every status is offline, online or rebooting, and a
\* record on which no lifecycle action was performed is offline.
C14_StatusValues ==
    \A ref \in Refs :
       /\ Status(ref) \in {"offline", "online", "rebooting"}
       /\ NoActionYet(ref) => (Status(ref) = "offline" /\ PendingFor(timers, ref) = 0)

\* C14 (step part): a record is created offline.
C14_CreatedOffline ==
    Len(heap') > Len(heap) => heap'[Len(heap')].status = "offline"

\* C14: the status of every record is one of offline, online, rebooting, and
\* it is 'offline' from the creation of the record until the first lifecycle
\* action on it.
C14_StatusDomain ==
    /\ []C14_StatusValues
    /\ [][C14_CreatedOffline]_vars

\* !status and !ssh were handled on a record no lifecycle action has touched:
\* it is offline.
C14_Witness ==
    \E j, k \in 1..Len(handlers) :
       /\ handlers[j].kind = "message" /\ handlers[j].cmd = CmdStatus
       /\ handlers[k].kind = "message" /\ handlers[k].cmd = CmdSsh
       /\ handlers[j].vps = handlers[k].vps
       /\ NoActionYet(handlers[k].vps)
       /\ Status(handlers[k].vps) = "offline"

\* C15: the lifecycle controller keeps no reference to a record once
\* performAction has returned: between operations nothing it scheduled holds
\* one.
C15_NoReferenceRetained ==
    \A i \in 1..Len(timers) : timers[i] \notin Refs

\* C16: no handler ends with an error that nothing catches.
C16_NoUnhandledRejection ==
    \A k \in 1..Len(handlers) : handlers[k].pc # Rejected

\* C17: a record whose status is 'rebooting' has a deferred transition
\* pending.
C17_RebootingHasTimer ==
    \A ref \in Refs :
       Status(ref) = "rebooting" => PendingFor(timers, ref) >= 1

\* A record was rebooted, its timer ran, and it was rebooted again: it is
\* rebooting, with the timer of the second reboot pending.
C17_Witness ==
    \E j, k \in 1..Len(handlers) :
       /\ j < k
       /\ handlers[j].cmd = CmdReboot
       /\ handlers[k].cmd = CmdReboot
       /\ handlers[j].vps = handlers[k].vps
       /\ Status(handlers[k].vps) = "rebooting"
       /\ PendingFor(timers, handlers[k].vps) = 1

\* The owners that have an entry in the registry.
Owners == {id \in UserIds : vpsDatabase[id] # Undefined}

\* C18: the ids are LXC-1000, LXC-1001, ... in the order of creation, hence
\* pairwise distinct, and the counter is 1000 plus the number of records: a
\* createLxc that fails takes no id.
C18_IdsSequential ==
    /\ vpsIdCounter = InitialIdCounter + Cardinality(Owners)
    /\ Cardinality(Owners) = Len(heap)
    /\ \A ref \in Refs : heap[ref].id = VpsIdOf(InitialIdCounter + ref - 1)
    /\ \A a, b \in Refs : a # b => heap[a].id # heap[b].id

\* Two records exist and a third createLxc has failed.
C18_Witness ==
    /\ Len(heap) = 2
    /\ \E k \in 1..Len(handlers) : handlers[k].pc = "L116"

\* Handler k is a deploy for user id that has returned from createLxc and
\* has not ended.
DeployPast(k, id) ==
    /\ handlers[k].kind = "deploy"
    /\ handlers[k].user.id = id
    /\ handlers[k].pc \in {"L116", "L135", "L137", "L140"}

\* C19 (state part): of the deploys for one user that have returned from
\* createLxc, at most one created a record, the others hold the error "User
\* already has a VPS." and the record exists; the user has one record.
C19_OneWinner ==
    \A id \in UserIds :
       /\ \A j, k \in 1..Len(handlers) :
             (DeployPast(j, id) /\ DeployPast(k, id) /\ j # k) =>
                ~(handlers[j].vps # Undefined /\ handlers[k].vps # Undefined)
       /\ \A k \in 1..Len(handlers) :
             (DeployPast(k, id) /\ handlers[k].pc = "L116") =>
                /\ handlers[k].content = CreateErrorText("User already has a VPS.")
                /\ handlers[k].vps = Undefined
                /\ vpsDatabase[id] # Undefined
       /\ Cardinality({ref \in Refs : heap[ref].owner.id = id}) <= 1

\* C19 (step part): a createLxc call creates the record, with one new id,
\* exactly when the user has none; otherwise it changes nothing.
C19_CreateDecides ==
    \A k \in 1..MaxEvents :
       CreateLxcCalled(k) =>
          IF vpsDatabase[handlers[k].user.id] = Undefined
          THEN /\ handlers'[k].pc = "L135"
               /\ Len(heap') = Len(heap) + 1
               /\ vpsIdCounter' = vpsIdCounter + 1
               /\ vpsDatabase'[handlers[k].user.id] = Len(heap')
          ELSE /\ handlers'[k].pc = "L116"
               /\ UNCHANGED <<vpsDatabase, heap, vpsIdCounter>>

C20_DegradedOnlyIfDmFailed ==
    \A k \in 1..Len(handlers) :
       (handlers[k].kind = "deploy" /\ handlers[k].pc = "L140") =>
          ~handlers[k].dmSent

====
